---- MODULE Spec2Model ----
(***************************************************************************)
(* Model of the pool tournament bot (src/main.py): the persisted aggregate *)
(* (state.json), the command handlers start / help / promo / status /     *)
(* join / tables / winner / promostats, and the await points at which a   *)
(* handler is suspended or ended by a failing reply.                      *)
(*                                                                         *)
(* Python strings are sequences of character codes, so that str(), int(), *)
(* lower(), startswith() and split() are computed and not assumed.  None  *)
(* is the sequence <<-1>>, which no string equals.                        *)
(***************************************************************************)
EXTENDS Integers, Sequences, FiniteSets, TLC

\* ---------- bounds ----------

\* Telegram users 1..NumUsers issue commands.
NumUsers == 6

\* Commands dispatched in one behaviour.
MaxCmds == 3

\* ---------- CONFIG (src/main.py 28-36) ----------

\* ADMIN_ID is read from the environment; user 1 is the configured admin and
\* plays like any other user.  PROMO_BONUS is the whole float 2.0.
ADMIN_ID == 1
TABLE_SIZE == 5
BUY_IN == 5
PROMO_BONUS == 2

\* ---------- strings ----------

None == <<-1>>

\* Python truthiness of an optional string: None and "" are falsy.
Truthy(s) == s # None /\ s # <<>>

\* str(n) for n >= 0
RECURSIVE str(_)
str(n) == IF n < 10 THEN <<48 + n>> ELSE str(n \div 10) \o <<48 + (n % 10)>>

IsDigits(s) == Len(s) > 0 /\ \A i \in 1..Len(s) : s[i] >= 48 /\ s[i] <= 57

RECURSIVE DigitsVal(_)
DigitsVal(s) == IF Len(s) = 0 THEN 0
                ELSE 10 * DigitsVal(SubSeq(s, 1, Len(s) - 1)) + (s[Len(s)] - 48)

\* int(s) raises ValueError unless s is an optionally signed run of digits.
IntOk(s) == IF Len(s) > 0 /\ s[1] \in {43, 45} THEN IsDigits(Tail(s)) ELSE IsDigits(s)

int(s) == IF s[1] = 45 THEN 0 - DigitsVal(Tail(s))
          ELSE IF s[1] = 43 THEN DigitsVal(Tail(s))
          ELSE DigitsVal(s)

\* s.lower()
lower(s) == [i \in 1..Len(s) |-> IF s[i] >= 65 /\ s[i] <= 90 THEN s[i] + 32 ELSE s[i]]

\* s.startswith(p)
startswith(s, p) == Len(s) >= Len(p) /\ SubSeq(s, 1, Len(p)) = p

\* s.split(sep, 1)[1] for an s that contains sep: what follows the first sep
RECURSIVE split1(_, _)
split1(s, sep) == IF s[1] = sep THEN Tail(s) ELSE split1(Tail(s), sep)

\* "promo_"
PromoPrefix == <<112, 114, 111, 109, 111, 95>>

\* f"promo_{id}"
promo_code(idstr) == PromoPrefix \o idstr

\* ---------- principals ----------

Users == 1..NumUsers

\* user.username: users 1 and 2 carry the same name up to case ("Al", "al"),
\* user 3 has none, the others have names of their own ("Bo", "cy", ...).
UserName(u) == CASE u = 1 -> <<65, 108>>
                 [] u = 2 -> <<97, 108>>
                 [] u = 3 -> None
                 [] u = 4 -> <<66, 111>>
                 [] OTHER -> <<99, 116 + u>>

\* user.first_name ("P1", "P2", ...)
FirstName(u) == <<80>> \o str(u)

User(u) == [id |-> u, username |-> UserName(u), first_name |-> FirstName(u)]

\* ---------- STATE MANAGEMENT ----------

EmptyState == [tables |-> <<>>, next_table_id |-> 1,
               players |-> <<>>, promoters |-> <<>>]

VARIABLES
    file,      \* STATE_FILE: [kind: "absent" | "json" | "torn", data: the aggregate read]
    handler,   \* per dispatch slot: the handler's position and its local `state`
    ncmds,     \* commands dispatched so far
    concurrent_updates  \* Application.concurrent_updates: may handlers overlap

vars == <<file, handler, ncmds, concurrent_updates>>

\* load_state(): the parsed file, or the empty aggregate when the file is
\* missing or unreadable.
load_state == IF file.kind = "json" THEN file.data ELSE EmptyState

\* save_state(state): the file holds json.dump(state).  Every key is a string
\* and every value an int, a whole float, a string, a list or None, so
\* json.load gives back the same value.
save_state(state) == [kind |-> "json", data |-> state]

get_or_create_player(state, user) ==
    LET uid == str(user.id) IN
    IF uid \in DOMAIN state.players THEN state
    ELSE [state EXCEPT !.players = state.players @@ (uid :>
            [id |-> user.id, username |-> user.username,
             first_name |-> user.first_name, joined_tables |-> 0, wins |-> 0,
             referred_by |-> None, promo_code |-> None])]

\* get_or_create_promoter that writes a fresh record over an existing one.
get_or_create_promoter_fresh(state, user) ==
    LET uid == str(user.id)
        fresh == [id |-> user.id, username |-> user.username,
                  first_name |-> user.first_name, promo_code |-> promo_code(str(user.id)),
                  referred_players |-> 0, pending_payout |-> 0, total_paid |-> 0]
    IN [state EXCEPT !.promoters =
            [p \in DOMAIN state.promoters \cup {uid} |->
                IF p = uid THEN fresh ELSE state.promoters[p]]]

get_or_create_promoter(state, user) ==
    LET uid == str(user.id) IN
    IF uid \in DOMAIN state.promoters THEN state
    ELSE [state EXCEPT !.promoters = state.promoters @@ (uid :>
            [id |-> user.id, username |-> user.username,
             first_name |-> user.first_name, promo_code |-> promo_code(str(user.id)),
             referred_players |-> 0, pending_payout |-> 0, total_paid |-> 0])]


\* Position in state["tables"] (a dict, iterated in insertion order) of the
\* entry stored under `key`; 0 when there is none.
TableIndex(state, key) ==
    LET hits == {i \in 1..Len(state.tables) : state.tables[i].key = key} IN
    IF hits = {} THEN 0 ELSE CHOOSE i \in hits : TRUE

\* find_waiting_table without the test of the player count.
find_waiting_table_anysize(state) ==
    LET hits == {i \in 1..Len(state.tables) : state.tables[i].status = "waiting"} IN
    IF hits = {} THEN 0 ELSE CHOOSE i \in hits : \A j \in hits : i <= j

\* find_waiting_table that finds no table.
find_waiting_table_never(state) == 0

\* The position of the table returned, 0 for None.
find_waiting_table(state) ==
    LET hits == {i \in 1..Len(state.tables) :
                    /\ state.tables[i].status = "waiting"
                    /\ Len(state.tables[i].players) < TABLE_SIZE} IN
    IF hits = {} THEN 0 ELSE CHOOSE i \in hits : \A j \in hits : i <= j

\* state["tables"][str(table_id)] = table: a new key is appended to the dict,
\* an existing key keeps its position and gets the new value.
create_table(state) ==
    LET table_id == state.next_table_id
        table == [key |-> str(table_id), id |-> table_id, status |-> "waiting",
                  buy_in |-> BUY_IN, players |-> <<>>, winner_id |-> None,
                  promoters |-> <<>>]
        at == TableIndex(state, str(table_id))
    IN [state EXCEPT !.next_table_id = table_id + 1,
                     !.tables = IF at = 0 THEN Append(state.tables, table)
                                ELSE [state.tables EXCEPT ![at] = table]]

\* ---------- handlers in flight ----------

Handlers == {1, 2}

\* No handler runs in the slot: the last one returned.
Idle == [pc |-> "idle", cmd |-> "", user |-> 0, args |-> <<>>, text |-> "",
         state |-> EmptyState, table |-> 0]

\* No handler runs in the slot: the last one ended with an exception, which
\* the Application logs.
Raised == [Idle EXCEPT !.pc = "raised"]

\* A handler suspended at the await `pc` while it sends `text`: its command,
\* update.effective_user.id and context.args.  `state` and `table` are the
\* locals the rest of the handler still reads (none but in join).
Awaiting(pc, cmd, u, args, text) ==
    [pc |-> pc, cmd |-> cmd, user |-> u, args |-> args, text |-> text,
     state |-> EmptyState, table |-> 0]

\* Application.run_polling() without concurrent_updates processes one update
\* at a time: the next handler starts when the previous one has ended.  With
\* concurrent_updates each update gets a task of its own, and a handler
\* starts while another one is suspended at an await.
CanDispatch(h) ==
    /\ ncmds < MaxCmds
    /\ handler[h].pc \in {"idle", "raised"}
    /\ IF concurrent_updates
       THEN \A g \in Handlers : g < h => handler[g].pc \notin {"idle", "raised"}
       ELSE h = 1 /\ \A g \in Handlers : handler[g].pc \in {"idle", "raised"}

\* ---------- COMMAND HANDLERS ----------

\* context.args of /start: none, "promo_1", "promo_01", "promo_x", "hi"
StartArgs == {<<>>, <<promo_code(<<49>>)>>, <<promo_code(<<48, 49>>)>>,
              <<promo_code(<<120>>)>>, <<<<104, 105>>>>}

\* start_referral without the test that referred_by is still None.
start_referral_overwrite(state, user, args) ==
    LET uid == str(user.id) IN
    IF args # <<>> /\ startswith(args[1], PromoPrefix)
    THEN LET promoter_id == split1(args[1], 95) IN
         IF promoter_id # uid
         THEN LET s1 == [state EXCEPT !.players[uid].referred_by = promoter_id]
                  known == promoter_id \in DOMAIN s1.promoters
              IN IF ~known /\ ~IntOk(promoter_id)
                 THEN [raised |-> TRUE, state |-> s1]
                 ELSE LET s2 == IF known THEN s1
                                ELSE [s1 EXCEPT !.promoters = s1.promoters @@ (promoter_id :>
                                        [id |-> int(promoter_id), username |-> None,
                                         first_name |-> None,
                                         promo_code |-> promo_code(promoter_id),
                                         referred_players |-> 0, pending_payout |-> 0,
                                         total_paid |-> 0])]
                      IN [raised |-> FALSE,
                          state |-> [s2 EXCEPT !.promoters[promoter_id].referred_players = @ + 1]]
         ELSE [raised |-> FALSE, state |-> state]
    ELSE [raised |-> FALSE, state |-> state]

\* start_referral without the test for the user's own id.
start_referral_self(state, user, args) ==
    LET uid == str(user.id) IN
    IF /\ args # <<>>
       /\ startswith(args[1], PromoPrefix)
       /\ state.players[uid].referred_by = None
    THEN LET promoter_id == split1(args[1], 95)
             s1 == [state EXCEPT !.players[uid].referred_by = promoter_id]
             known == promoter_id \in DOMAIN s1.promoters
         IN IF ~known /\ ~IntOk(promoter_id)
            THEN [raised |-> TRUE, state |-> s1]
            ELSE LET s2 == IF known THEN s1
                           ELSE [s1 EXCEPT !.promoters = s1.promoters @@ (promoter_id :>
                                   [id |-> int(promoter_id), username |-> None,
                                    first_name |-> None,
                                    promo_code |-> promo_code(promoter_id),
                                    referred_players |-> 0, pending_payout |-> 0,
                                    total_paid |-> 0])]
                 IN [raised |-> FALSE,
                     state |-> [s2 EXCEPT !.promoters[promoter_id].referred_players = @ + 1]]
    ELSE [raised |-> FALSE, state |-> state]

\* Lines 131-148 of start: [raised |-> int() raised ValueError, state |-> the
\* aggregate after the referral was handled].
start_referral(state, user, args) ==
    LET uid == str(user.id) IN
    IF /\ args # <<>>
       /\ startswith(args[1], PromoPrefix)
       /\ state.players[uid].referred_by = None
    THEN LET promoter_id == split1(args[1], 95) IN
         IF promoter_id # uid
         THEN LET s1 == [state EXCEPT !.players[uid].referred_by = promoter_id]
                  known == promoter_id \in DOMAIN s1.promoters
              IN IF ~known /\ ~IntOk(promoter_id)
                 THEN [raised |-> TRUE, state |-> s1]
                 ELSE LET s2 == IF known THEN s1
                                ELSE [s1 EXCEPT !.promoters = s1.promoters @@ (promoter_id :>
                                        [id |-> int(promoter_id), username |-> None,
                                         first_name |-> None,
                                         promo_code |-> promo_code(promoter_id),
                                         referred_players |-> 0, pending_payout |-> 0,
                                         total_paid |-> 0])]
                      IN [raised |-> FALSE,
                          state |-> [s2 EXCEPT !.promoters[promoter_id].referred_players = @ + 1]]
         ELSE [raised |-> FALSE, state |-> state]
    ELSE [raised |-> FALSE, state |-> state]

\* /start by user u: load, referral, save, then the welcome reply.  An
\* exception before save_state ends the handler with the file untouched.
start(h, u, args) ==
    /\ CanDispatch(h)
    /\ LET player == get_or_create_player(load_state, User(u))
           r == start_referral(player, User(u), args)
       IN IF r.raised
          THEN /\ handler' = [handler EXCEPT ![h] = Raised]
               /\ UNCHANGED file
          ELSE /\ file' = save_state(r.state)
               /\ handler' = [handler EXCEPT ![h] =
                      Awaiting("reply", "start", u, args, "Welcome")]
    /\ ncmds' = ncmds + 1
    /\ UNCHANGED concurrent_updates

\* /help: a reply only; the handler does not read the user.
help_cmd(h) ==
    /\ CanDispatch(h)
    /\ handler' = [handler EXCEPT ![h] = Awaiting("reply", "help", 0, <<>>, "Commands")]
    /\ ncmds' = ncmds + 1
    /\ UNCHANGED file
    /\ UNCHANGED concurrent_updates

\* /promo by user u: upsert the promoter, sync the names, save; then
\* await get_me() and the reply.
promo(h, u) ==
    /\ CanDispatch(h)
    /\ LET s1 == get_or_create_promoter(load_state, User(u))
           uid == str(u)
           s2 == [s1 EXCEPT !.promoters[uid].username = User(u).username,
                            !.promoters[uid].first_name = User(u).first_name]
       IN file' = save_state(s2)
    /\ handler' = [handler EXCEPT ![h] =
            Awaiting("get_me", "promo", u, <<>>, "Your promoter details")]
    /\ ncmds' = ncmds + 1
    /\ UNCHANGED concurrent_updates

\* /status by user u: the player is created in the loaded snapshot only;
\* the handler never calls save_state.
status(h, u) ==
    /\ CanDispatch(h)
    /\ LET player == get_or_create_player(load_state, User(u))
       IN handler' = [handler EXCEPT ![h] =
              Awaiting("reply", "status", u, <<>>, "Your stats")]
    /\ ncmds' = ncmds + 1
    /\ UNCHANGED file
    /\ UNCHANGED concurrent_updates

\* update.effective_chat.type
ChatTypes == {"private", "group"}

\* join_enroll without the test that the user is already in the table.
join_enroll_nodup(state, user) ==
    LET s1 == get_or_create_player(state, user)
        found == find_waiting_table(s1)
        s2 == IF found = 0 THEN create_table(s1) ELSE s1
        t == IF found = 0 THEN TableIndex(s2, str(s1.next_table_id)) ELSE found
        uid == str(user.id)
    IN [dup |-> FALSE, table |-> t,
        state |-> [s2 EXCEPT !.tables[t].players = Append(@, uid),
                             !.players[uid].joined_tables = @ + 1]]

\* Lines 231-245 of join on the loaded snapshot: [dup |-> the user is already
\* in the table, state |-> the mutated snapshot, table |-> the position of
\* the local `table`].
join_enroll(state, user) ==
    LET s1 == get_or_create_player(state, user)
        found == find_waiting_table(s1)
        s2 == IF found = 0 THEN create_table(s1) ELSE s1
        t == IF found = 0 THEN TableIndex(s2, str(s1.next_table_id)) ELSE found
        uid == str(user.id)
    IN IF \E i \in 1..Len(s2.tables[t].players) : s2.tables[t].players[i] = uid
       THEN [dup |-> TRUE, state |-> s2, table |-> t]
       ELSE [dup |-> FALSE, table |-> t,
             state |-> [s2 EXCEPT !.tables[t].players = Append(@, uid),
                                  !.players[uid].joined_tables = @ + 1]]

\* /join by user u up to its first await: outside a group chat and for a
\* duplicate a reply and no save; otherwise the enrolment is saved and the
\* handler awaits the "joined" reply holding `state` and `table`.
join(h, u, chat) ==
    /\ CanDispatch(h)
    /\ ncmds' = ncmds + 1
    /\ IF chat \notin {"group", "supergroup"}
       THEN /\ handler' = [handler EXCEPT ![h] =
                   Awaiting("reply", "join", u, <<>>, "Use /join in the main group chat.")]
            /\ UNCHANGED file
       ELSE LET r == join_enroll(load_state, User(u)) IN
            IF r.dup
            THEN /\ handler' = [handler EXCEPT ![h] =
                        Awaiting("reply", "join", u, <<>>, "You are already in this table.")]
                 /\ UNCHANGED file
            ELSE /\ file' = save_state(r.state)
                 /\ handler' = [handler EXCEPT ![h] =
                        [Awaiting("join_reply", "join", u, <<>>, "joined table")
                            EXCEPT !.state = r.state, !.table = r.table]]
    /\ UNCHANGED concurrent_updates

\* join_start_table that leaves the status as it is.
join_start_table_skip(state, t) == state

\* Lines 256-258 of join: the local snapshot with the table set running.
join_start_table(state, t) == [state EXCEPT !.tables[t].status = "running"]

\* join after the "joined" reply was delivered: a full table is set running
\* in the local snapshot, which is saved again, and the announcement awaited.
join_replied(h) ==
    /\ handler[h].pc = "join_reply"
    /\ LET state == handler[h].state
           t == handler[h].table
           remaining == TABLE_SIZE - Len(state.tables[t].players)
       IN IF remaining <= 0
          THEN /\ file' = save_state(join_start_table(state, t))
               /\ handler' = [handler EXCEPT ![h] =
                      Awaiting("reply", "join", handler[h].user, <<>>,
                               "is FULL and now RUNNING!")]
          ELSE /\ handler' = [handler EXCEPT ![h] = Idle]
               /\ UNCHANGED file
    /\ UNCHANGED ncmds
    /\ UNCHANGED concurrent_updates

\* /tables by user u (admin only): read-only.
tables(h, u) ==
    /\ CanDispatch(h)
    /\ ncmds' = ncmds + 1
    /\ handler' = [handler EXCEPT ![h] =
            IF u # ADMIN_ID THEN Idle
            ELSE IF load_state.tables = <<>>
            THEN Awaiting("reply", "tables", u, <<>>, "No tables yet.")
            ELSE Awaiting("reply", "tables", u, <<>>, "Tables:")]
    /\ UNCHANGED file
    /\ UNCHANGED concurrent_updates

\* context.args of /winner: too few, or a table id ("1", "2", "01") and a
\* mention ("@AL", "@bo", "@zz", "bo").
WinnerArgs == {<<>>, <<<<49>>>>} \cup
              {<<t, m>> : t \in {<<49>>, <<50>>, <<48, 49>>},
                          m \in {<<64, 65, 76>>, <<64, 98, 111>>,
                                 <<64, 122, 122>>, <<98, 111>>}}

\* winner_match that compares the mention with the username alone, without "@".
winner_match_bare(state, t, mention) ==
    LET players == state.tables[t].players
        hits == {i \in 1..Len(players) :
                    /\ players[i] \in DOMAIN state.players
                    /\ Truthy(state.players[players[i]].username)
                    /\ lower(state.players[players[i]].username) = lower(mention)}
    IN IF hits = {} THEN None
       ELSE players[CHOOSE i \in hits : \A j \in hits : i <= j]

\* winner_match that returns the last matching player of the table.
winner_match_last(state, t, mention) ==
    LET players == state.tables[t].players
        hits == {i \in 1..Len(players) :
                    /\ players[i] \in DOMAIN state.players
                    /\ Truthy(state.players[players[i]].username)
                    /\ <<64>> \o lower(state.players[players[i]].username) = lower(mention)}
    IN IF hits = {} THEN None
       ELSE players[CHOOSE i \in hits : \A j \in hits : i >= j]

\* Lines 323-331 of winner: the first player of the table, in join order,
\* whose stored username matches the mention; None when there is none.
winner_match(state, t, mention) ==
    LET players == state.tables[t].players
        hits == {i \in 1..Len(players) :
                    /\ players[i] \in DOMAIN state.players
                    /\ Truthy(state.players[players[i]].username)
                    /\ <<64>> \o lower(state.players[players[i]].username) = lower(mention)}
    IN IF hits = {} THEN None
       ELSE players[CHOOSE i \in hits : \A j \in hits : i <= j]

\* winner_settle that pays the bonus to the promoter record of the winner.
winner_settle_pay_self(state, t, winner_uid) ==
    LET s1 == [state EXCEPT !.tables[t].status = "finished",
                            !.tables[t].winner_id = winner_uid,
                            !.players[winner_uid].wins = @ + 1]
    IN IF winner_uid \in DOMAIN s1.promoters
       THEN [s1 EXCEPT !.promoters[winner_uid].pending_payout = @ + PROMO_BONUS]
       ELSE s1

\* winner_settle that records the winner and leaves the table running.
winner_settle_keep_running(state, t, winner_uid) ==
    LET s1 == [state EXCEPT !.tables[t].winner_id = winner_uid,
                            !.players[winner_uid].wins = @ + 1]
        promoter_id == s1.players[winner_uid].referred_by
    IN IF Truthy(promoter_id) /\ promoter_id \in DOMAIN s1.promoters
       THEN [s1 EXCEPT !.promoters[promoter_id].pending_payout = @ + PROMO_BONUS]
       ELSE s1

\* winner_settle that leaves the winner's wins as they are.
winner_settle_no_wins(state, t, winner_uid) ==
    LET s1 == [state EXCEPT !.tables[t].status = "finished",
                            !.tables[t].winner_id = winner_uid]
        promoter_id == s1.players[winner_uid].referred_by
    IN IF Truthy(promoter_id) /\ promoter_id \in DOMAIN s1.promoters
       THEN [s1 EXCEPT !.promoters[promoter_id].pending_payout = @ + PROMO_BONUS]
       ELSE s1

\* Lines 337-350 of winner: the table is finished, the winner's wins go up
\* and the winner's referrer, when recorded, accrues the bonus.
winner_settle(state, t, winner_uid) ==
    LET s1 == [state EXCEPT !.tables[t].status = "finished",
                            !.tables[t].winner_id = winner_uid,
                            !.players[winner_uid].wins = @ + 1]
        promoter_id == s1.players[winner_uid].referred_by
    IN IF Truthy(promoter_id) /\ promoter_id \in DOMAIN s1.promoters
       THEN [s1 EXCEPT !.promoters[promoter_id].pending_payout = @ + PROMO_BONUS]
       ELSE s1

\* winner_result that turns away waiting tables only.
winner_result_finished_ok(state, args) ==
    LET t == TableIndex(state, args[1]) IN
    IF t = 0 THEN [text |-> "Table not found.", state |-> state]
    ELSE IF state.tables[t].status = "waiting"
    THEN [text |-> "Table is not running.", state |-> state]
    ELSE LET winner_uid == winner_match(state, t, args[2]) IN
         IF winner_uid = None
         THEN [text |-> "Winner not found in this table.", state |-> state]
         ELSE [text |-> "finished!", state |-> winner_settle(state, t, winner_uid)]

\* winner_result that turns away finished tables only.
winner_result_waiting_ok(state, args) ==
    LET t == TableIndex(state, args[1]) IN
    IF t = 0 THEN [text |-> "Table not found.", state |-> state]
    ELSE IF state.tables[t].status = "finished"
    THEN [text |-> "Table is not running.", state |-> state]
    ELSE LET winner_uid == winner_match(state, t, args[2]) IN
         IF winner_uid = None
         THEN [text |-> "Winner not found in this table.", state |-> state]
         ELSE [text |-> "finished!", state |-> winner_settle(state, t, winner_uid)]

\* Lines 312-352 of winner on the loaded snapshot: the reply and the
\* aggregate, mutated when the declaration resolved.
winner_result(state, args) ==
    LET t == TableIndex(state, args[1]) IN
    IF t = 0 THEN [text |-> "Table not found.", state |-> state]
    ELSE IF state.tables[t].status # "running"
    THEN [text |-> "Table is not running.", state |-> state]
    ELSE LET winner_uid == winner_match(state, t, args[2]) IN
         IF winner_uid = None
         THEN [text |-> "Winner not found in this table.", state |-> state]
         ELSE [text |-> "finished!", state |-> winner_settle(state, t, winner_uid)]

\* /winner by user u: a non-admin is ignored, too few arguments get the
\* usage reply, a rejected declaration its reply and no save; a declaration
\* that resolves is saved before the reply.
winner(h, u, args) ==
    /\ CanDispatch(h)
    /\ ncmds' = ncmds + 1
    /\ IF u # ADMIN_ID
       THEN /\ handler' = [handler EXCEPT ![h] = Idle]
            /\ UNCHANGED file
       ELSE IF Len(args) < 2
       THEN /\ handler' = [handler EXCEPT ![h] =
                   Awaiting("reply", "winner", u, args, "Usage: /winner <table_id> @username")]
            /\ UNCHANGED file
       ELSE LET r == winner_result(load_state, args) IN
            /\ handler' = [handler EXCEPT ![h] = Awaiting("reply", "winner", u, args, r.text)]
            /\ IF r.text = "finished!"
               THEN file' = save_state(r.state)
               ELSE UNCHANGED file
    /\ UNCHANGED concurrent_updates

\* /promostats by user u (admin only): read-only.
promostats(h, u) ==
    /\ CanDispatch(h)
    /\ ncmds' = ncmds + 1
    /\ handler' = [handler EXCEPT ![h] =
            IF u # ADMIN_ID THEN Idle
            ELSE IF DOMAIN load_state.promoters = {}
            THEN Awaiting("reply", "promostats", u, <<>>, "No promoters yet.")
            ELSE Awaiting("reply", "promostats", u, <<>>, "Promoter stats:")]
    /\ UNCHANGED file
    /\ UNCHANGED concurrent_updates

\* ---------- await points ----------

\* context.bot.get_me() returned: promo goes on to its reply.
got_me(h) ==
    /\ handler[h].pc = "get_me"
    /\ handler' = [handler EXCEPT ![h].pc = "reply"]
    /\ UNCHANGED <<file, ncmds>>
    /\ UNCHANGED concurrent_updates

\* The last reply of a handler was delivered: the handler returns.
replied(h) ==
    /\ handler[h].pc = "reply"
    /\ handler' = [handler EXCEPT ![h] = Idle]
    /\ UNCHANGED <<file, ncmds>>
    /\ UNCHANGED concurrent_updates

\* An awaited Telegram call raised (network error, bot blocked): the
\* exception ends the handler where it stands.
await_raised(h) ==
    /\ handler[h].pc \in {"get_me", "join_reply", "reply"}
    /\ handler' = [handler EXCEPT ![h] = Raised]
    /\ UNCHANGED <<file, ncmds>>
    /\ UNCHANGED concurrent_updates

\* ---------- specification ----------

\* The aggregate after the users of `order` joined, one after the other, from
\* an empty file.
RECURSIVE Joined(_)
Joined(order) ==
    IF order = <<>> THEN EmptyState
    ELSE join_enroll(Joined(SubSeq(order, 1, Len(order) - 1)),
                     User(order[Len(order)])).state

\* The process starts with no state file, or with the file an earlier run
\* left behind when all but one seat of table 1 were taken.
Init ==
    /\ file \in {[kind |-> "absent", data |-> EmptyState],
                 save_state(Joined(<<2, 1, 3, 4>>))}
    /\ handler = [h \in Handlers |-> Idle]
    /\ ncmds = 0
    /\ concurrent_updates = FALSE

Next ==
    \E h \in Handlers :
        \/ \E u \in Users, args \in StartArgs : start(h, u, args)
        \/ help_cmd(h)
        \/ \E u \in Users : promo(h, u)
        \/ \E u \in Users : status(h, u)
        \/ \E u \in Users, chat \in ChatTypes : join(h, u, chat)
        \/ join_replied(h)
        \/ \E u \in Users : tables(h, u)
        \/ \E u \in Users, args \in WinnerArgs : winner(h, u, args)
        \/ \E u \in Users : promostats(h, u)
        \/ got_me(h)
        \/ replied(h)
        \/ await_raised(h)

Spec == Init /\ [][Next]_vars


\* ---------- vocabulary of the properties ----------

\* ---------- interruption during save_state ----------

\* STATE_FILE after open("w") truncated it and before json.dump and the
\* close wrote the whole text: empty, or a proper prefix of the dump.
\* json.load refuses both, and load_state answers with the empty aggregate.
Torn == [kind |-> "torn", data |-> EmptyState]

\* The aggregates that the handler of a command dispatched now would pass to
\* save_state: start (150), promo (186), join (246) and winner (352).
DispatchWrites ==
    {start_referral(get_or_create_player(load_state, User(x[1])), User(x[1]), x[2]).state :
        x \in {y \in Users \X StartArgs :
                ~start_referral(get_or_create_player(load_state, User(y[1])),
                                User(y[1]), y[2]).raised}}
    \cup {[get_or_create_promoter(load_state, User(u)) EXCEPT
              !.promoters[str(u)].username = User(u).username,
              !.promoters[str(u)].first_name = User(u).first_name] : u \in Users}
    \cup {join_enroll(load_state, User(u)).state :
            u \in {v \in Users : ~join_enroll(load_state, User(v)).dup}}
    \cup {winner_result(load_state, args).state :
            args \in {a \in WinnerArgs :
                        Len(a) >= 2 /\ winner_result(load_state, a).text = "finished!"}}

\* The process is killed while the handler in slot h is inside save_state:
\* before the open (the old file), between the open and the close (a torn
\* file) or after the close (the new file).  Every handler dies with the
\* process; the next run starts with idle slots and the file as it was left.
killed_in_save(h) ==
    /\ \/ /\ CanDispatch(h)
          /\ \E state \in DispatchWrites : file' \in {file, Torn, save_state(state)}
          /\ ncmds' = ncmds + 1
       \/ /\ handler[h].pc = "join_reply"
          /\ Len(handler[h].state.tables[handler[h].table].players) >= TABLE_SIZE
          /\ file' \in {file, Torn,
                        save_state(join_start_table(handler[h].state, handler[h].table))}
          /\ UNCHANGED ncmds
    /\ handler' = [g \in Handlers |-> Idle]
    /\ UNCHANGED concurrent_updates

NextCrash ==
    \/ Next
    \/ \E h \in Handlers : killed_in_save(h)

\* The bot as main() runs it, on a host that may kill the process.
SpecCrash == Init /\ [][NextCrash]_vars

\* ---------- concurrent dispatch ----------

\* The Application built with concurrent_updates, the file as an earlier run
\* left it.
InitConcurrent ==
    /\ file = save_state(Joined(<<2, 1, 3, 4>>))
    /\ handler = [h \in Handlers |-> Idle]
    /\ ncmds = 0
    /\ concurrent_updates = TRUE

\* The handlers of main.py under a dispatcher that overlaps them.
SpecConcurrent == InitConcurrent /\ [][Next]_vars

\* Handler h starts command `cmd` in this step and reaches its first await.
Dispatched(h, cmd) ==
    /\ handler[h].pc \in {"idle", "raised"}
    /\ handler'[h].pc \notin {"idle", "raised"}
    /\ handler'[h].cmd = cmd

\* The table positions of an aggregate.
TableIds(state) == 1..Len(state.tables)

\* `mention` is "@" and the stored username of player pid, up to case.
SelectorNames(state, pid, mention) ==
    /\ pid \in DOMAIN state.players
    /\ state.players[pid].username # None
    /\ lower(<<64>> \o state.players[pid].username) = lower(mention)

\* args carries a referral token: "promo_" and a promoter id.
IsToken(args) == args # <<>> /\ startswith(args[1], PromoPrefix)

\* The promoter id a referral token names.
TokenId(args) == SubSeq(args[1], Len(PromoPrefix) + 1, Len(args[1]))

\* ---------- C1 ----------

\* C1: every table of the persisted aggregate has at most TABLE_SIZE entries
\* in its player list and no player id occurs twice in it.
C1_Capacity ==
    \A t \in TableIds(load_state) :
        LET players == load_state.tables[t].players IN
        /\ Len(players) <= TABLE_SIZE
        /\ \A i, j \in 1..Len(players) : i # j => players[i] # players[j]

\* A table is full and a further join went into another table.
C1_Witness ==
    \E t, t2 \in TableIds(load_state) :
        /\ t # t2
        /\ Len(load_state.tables[t].players) = TABLE_SIZE
        /\ Len(load_state.tables[t2].players) >= 1

\* ---------- C2 ----------

\* Handler h holds, at its "joined" reply, a table to which it appended the
\* TABLE_SIZE-th player.
FilledTable(h) ==
    /\ handler[h].pc = "join_reply"
    /\ Len(handler[h].state.tables[handler[h].table].players) = TABLE_SIZE

C3_FullNeverWaiting ==
    \A t \in TableIds(load_state) :
        Len(load_state.tables[t].players) = TABLE_SIZE
            => load_state.tables[t].status # "waiting"

\* ---------- C4 ----------

\* The declaration names an unknown table, a table that is waiting or
\* finished, or a selector that matches no enrolled player.
MustReject(state, args) ==
    LET t == TableIndex(state, args[1]) IN
    \/ t = 0
    \/ state.tables[t].status \in {"waiting", "finished"}
    \/ ~ \E i \in 1..Len(state.tables[t].players) :
            SelectorNames(state, state.tables[t].players[i], args[2])

\* C4: a winner declaration that names an unknown table id, a waiting or
\* finished table, or a selector matching no enrolled player is rejected
\* and leaves the whole persisted aggregate unchanged.
C4_RejectedUnchanged ==
    [][\A h \in Handlers :
        (/\ Dispatched(h, "winner")
         /\ Len(handler'[h].args) = 2
         /\ MustReject(load_state, handler'[h].args)) =>
            /\ file' = file
            /\ handler'[h].text \in {"Table not found.", "Table is not running.",
                                     "Winner not found in this table."}]_vars

\* A second declaration on a finished table was rejected; the winner has
\* one win.
C4_Witness ==
    /\ handler[1].cmd = "winner"
    /\ handler[1].text = "Table is not running."
    /\ \E t \in TableIds(load_state) :
        /\ load_state.tables[t].key = handler[1].args[1]
        /\ load_state.tables[t].status = "finished"
        /\ load_state.players[load_state.tables[t].winner_id].wins = 1


\* ---------- C5 ----------

\* C5: after a successful winner declaration on a running table that table
\* is finished, its winner_id is the declared player and one of the table's
\* players, the winner's wins went up by exactly one, and no other player's
\* wins and no other table's status or winner_id changed.
C5_Settled ==
    [][\A h \in Handlers :
        (Dispatched(h, "winner") /\ handler'[h].text = "finished!") =>
            LET args == handler'[h].args
                old == load_state
                new == load_state'
                t == TableIndex(old, args[1])
            IN /\ t # 0
               /\ old.tables[t].status = "running"
               /\ Len(new.tables) = Len(old.tables)
               /\ new.tables[t].status = "finished"
               /\ new.tables[t].players = old.tables[t].players
               /\ LET w == new.tables[t].winner_id IN
                   /\ \E i \in 1..Len(new.tables[t].players) : new.tables[t].players[i] = w
                   /\ SelectorNames(old, w, args[2])
                   /\ DOMAIN new.players = DOMAIN old.players
                   /\ new.players[w].wins = old.players[w].wins + 1
                   /\ \A p \in DOMAIN old.players \ {w} :
                        new.players[p].wins = old.players[p].wins
               /\ \A t2 \in TableIds(old) \ {t} :
                    /\ new.tables[t2].status = old.tables[t2].status
                    /\ new.tables[t2].winner_id = old.tables[t2].winner_id]_vars

\* A declaration succeeded while a second table exists.
C5_Witness ==
    /\ handler[1].cmd = "winner"
    /\ handler[1].text = "finished!"
    /\ Len(load_state.tables) = 2
    /\ \E t \in TableIds(load_state) :
        /\ load_state.tables[t].key = handler[1].args[1]
        /\ load_state.tables[t].status = "finished"
        /\ load_state.players[load_state.tables[t].winner_id].wins = 1

\* ---------- C6 ----------

C7_ReferredOnce ==
    [][/\ \A uid \in DOMAIN load_state.players :
            load_state.players[uid].referred_by # None =>
                /\ uid \in DOMAIN load_state'.players
                /\ load_state'.players[uid].referred_by = load_state.players[uid].referred_by
       /\ \A h \in Handlers :
            (/\ Dispatched(h, "start")
             /\ IsToken(handler'[h].args)
             /\ str(handler'[h].user) \in DOMAIN load_state.players
             /\ load_state.players[str(handler'[h].user)].referred_by # None) =>
                load_state'.promoters = load_state.promoters]_vars

\* A referred player has sent a start with a token for another promoter id.
C7_Witness ==
    /\ handler[1].cmd = "start"
    /\ IsToken(handler[1].args)
    /\ LET me == load_state.players[str(handler[1].user)] IN
        /\ me.referred_by # None
        /\ me.referred_by # TokenId(handler[1].args)
        /\ TokenId(handler[1].args) # str(handler[1].user)

\* ---------- C8 ----------

\* C8: a start whose referral token names the acting player's own id (the
\* id as str() writes it) never sets that player's referred_by, creates no
\* promoter record and raises no promoter's referred_players count.
C8_NoSelfReferral ==
    [][\A h \in Handlers :
        (/\ Dispatched(h, "start")
         /\ IsToken(handler'[h].args)
         /\ TokenId(handler'[h].args) = str(handler'[h].user)) =>
            LET uid == str(handler'[h].user) IN
            /\ load_state'.players[uid].referred_by =
                    (IF uid \in DOMAIN load_state.players
                     THEN load_state.players[uid].referred_by ELSE None)
            /\ load_state'.promoters = load_state.promoters]_vars

\* A player has sent a start with a token naming the player's own id.
C8_Witness ==
    /\ handler[1].cmd = "start"
    /\ IsToken(handler[1].args)
    /\ TokenId(handler[1].args) = str(handler[1].user)
    /\ load_state.players[str(handler[1].user)].referred_by = None

\* ---------- C9 ----------

\* C9: a start with a referral token issued by a player whose Player record
\* already exists does not set referred_by and does not change any
\* promoter's referred_players count.
C9_OnlyFirstContact ==
    [][\A h \in Handlers, u \in Users, args \in StartArgs :
        (start(h, u, args) /\ IsToken(args) /\ str(u) \in DOMAIN load_state.players) =>
            /\ load_state'.players[str(u)].referred_by = load_state.players[str(u)].referred_by
            /\ \A p \in DOMAIN load_state'.promoters :
                /\ p \in DOMAIN load_state.promoters
                /\ load_state'.promoters[p].referred_players
                        = load_state.promoters[p].referred_players]_vars

\* ---------- C10 ----------

\* C10: a referral naming a promoter id with no promoter record creates a
\* record with unknown username and display name and referred_players 1; a
\* promo request fills in the requester's username and display name, leaves
\* referred_players, pending_payout and total_paid of an existing record
\* unchanged and touches no other promoter record.
C10_ShellThenPromo ==
    [][\A h \in Handlers :
        /\ (/\ Dispatched(h, "start")
            /\ IsToken(handler'[h].args)
            /\ TokenId(handler'[h].args) \notin DOMAIN load_state.promoters
            /\ TokenId(handler'[h].args) \in DOMAIN load_state'.promoters) =>
                LET shell == load_state'.promoters[TokenId(handler'[h].args)] IN
                /\ shell.username = None
                /\ shell.first_name = None
                /\ shell.referred_players = 1
                /\ shell.pending_payout = 0
                /\ shell.total_paid = 0
        /\ Dispatched(h, "promo") =>
                LET u == handler'[h].user
                    old == load_state.promoters
                    new == load_state'.promoters
                IN /\ DOMAIN new = DOMAIN old \cup {str(u)}
                   /\ new[str(u)].username = UserName(u)
                   /\ new[str(u)].first_name = FirstName(u)
                   /\ \A p \in DOMAIN old \ {str(u)} : new[p] = old[p]
                   /\ str(u) \in DOMAIN old =>
                        /\ new[str(u)].referred_players = old[str(u)].referred_players
                        /\ new[str(u)].pending_payout = old[str(u)].pending_payout
                        /\ new[str(u)].total_paid = old[str(u)].total_paid]_vars

\* A promoter first known from a referral has requested the promo link.
C10_Witness ==
    /\ handler[1].cmd = "promo"
    /\ LET me == load_state.promoters[str(handler[1].user)] IN
        /\ me.referred_players = 1
        /\ me.first_name = FirstName(handler[1].user)
    /\ \E uid \in DOMAIN load_state.players :
        load_state.players[uid].referred_by = str(handler[1].user)

\* ---------- C11 ----------

\* C11: in every persisted state a table's status is finished if and only
\* if its winner_id is set.
C11_FinishedIffWinner ==
    \A t \in TableIds(load_state) :
        load_state.tables[t].status = "finished" <=> load_state.tables[t].winner_id # None

\* A table is finished with its winner recorded, beside a table that has none.
C11_Witness ==
    \E t, t2 \in TableIds(load_state) :
        /\ load_state.tables[t].status = "finished"
        /\ load_state.tables[t].winner_id # None
        /\ load_state.tables[t2].status = "waiting"
        /\ load_state.tables[t2].winner_id = None

\* ---------- C12 ----------

\* One persisted table may follow another: the same table, its status kept
\* or moved one step forward, a recorded winner kept.
Forward(old, new) ==
    /\ new.key = old.key
    /\ \/ new.status = old.status
       \/ old.status = "waiting" /\ new.status = "running"
       \/ old.status = "running" /\ new.status = "finished"
    /\ old.status = "finished" => new.winner_id = old.winner_id

\* C12: from one persisted state to the next every table stays, and its
\* status is kept or moves forward along waiting -> running -> finished; a
\* finished table keeps its winner_id.
C12_ForwardOnly ==
    [][/\ Len(load_state'.tables) >= Len(load_state.tables)
       /\ \A t \in TableIds(load_state) :
            Forward(load_state.tables[t], load_state'.tables[t])]_vars

\* A table that was filled and set running has been finished.
C12_Witness ==
    /\ handler[1].cmd = "winner"
    /\ handler[1].text = "finished!"
    /\ \E t \in TableIds(load_state) :
        /\ load_state.tables[t].status = "finished"
        /\ Len(load_state.tables[t].players) = TABLE_SIZE

\* ---------- C15 ----------

\* C15: after a status query by a principal that had no Player record the
\* persisted aggregate holds a Player record for that id with
\* joined_tables 0, wins 0 and no referred_by.
C15_StatusCreatesPlayer ==
    [][\A h \in Handlers :
        (Dispatched(h, "status")
            /\ str(handler'[h].user) \notin DOMAIN load_state.players) =>
            LET uid == str(handler'[h].user) IN
            /\ uid \in DOMAIN load_state'.players
            /\ load_state'.players[uid].joined_tables = 0
            /\ load_state'.players[uid].wins = 0
            /\ load_state'.players[uid].referred_by = None]_vars

\* ---------- C16 ----------

\* The open table a join goes to (the first waiting table with a free seat)
\* has uid in its player list.
InOpenTable(state, uid) ==
    \E t \in TableIds(state) :
        /\ state.tables[t].status = "waiting"
        /\ Len(state.tables[t].players) < TABLE_SIZE
        /\ \A t2 \in 1..(t - 1) :
            ~(state.tables[t2].status = "waiting"
                /\ Len(state.tables[t2].players) < TABLE_SIZE)
        /\ \E i \in 1..Len(state.tables[t].players) : state.tables[t].players[i] = uid

\* C16: a join by a player whose id is already in the open waiting table's
\* player list is rejected as a duplicate and leaves the persisted
\* aggregate unchanged.
C16_DuplicateRejected ==
    [][\A h \in Handlers, u \in Users :
        (join(h, u, "group") /\ InOpenTable(load_state, str(u))) =>
            /\ file' = file
            /\ handler'[h].text = "You are already in this table."]_vars

\* A player of the open table has sent join again and was turned away.
C16_Witness ==
    /\ handler[1].cmd = "join"
    /\ handler[1].text = "You are already in this table."
    /\ InOpenTable(load_state, str(handler[1].user))
    /\ load_state.players[str(handler[1].user)].joined_tables = 1

\* ---------- C17 ----------

\* C17: in every persisted state each promoter's referred_players is the
\* number of Player records whose referred_by is that promoter's id, and
\* every referred_by that is set names an existing promoter record.
C17_ReferredCount ==
    /\ \A p \in DOMAIN load_state.promoters :
        load_state.promoters[p].referred_players =
            Cardinality({uid \in DOMAIN load_state.players :
                            load_state.players[uid].referred_by = p})
    /\ \A uid \in DOMAIN load_state.players :
        load_state.players[uid].referred_by # None =>
            load_state.players[uid].referred_by \in DOMAIN load_state.promoters

\* Two players are linked to one promoter, who is counted twice.
C17_Witness ==
    \E p \in DOMAIN load_state.promoters :
        /\ load_state.promoters[p].referred_players = 2
        /\ Cardinality({uid \in DOMAIN load_state.players :
                            load_state.players[uid].referred_by = p}) = 2

\* ---------- C18 ----------

\* The positions in table t of the players the mention names.
Named(state, t, mention) ==
    {i \in 1..Len(state.tables[t].players) :
        SelectorNames(state, state.tables[t].players[i], mention)}

\* C18: a winner declaration on a running table succeeds if and only if the
\* selector is, up to case, "@" and the stored username of a player of that
\* table; the winner is then the first such player in join order; a player
\* stored without username is never a winner.
C18_FirstMatch ==
    /\ [](\A t \in TableIds(load_state) :
            load_state.tables[t].winner_id # None =>
                load_state.players[load_state.tables[t].winner_id].username # None)
    /\ [][\A h \in Handlers :
            LET args == handler'[h].args
                t == TableIndex(load_state, args[1])
            IN (/\ Dispatched(h, "winner")
                /\ Len(args) = 2
                /\ t # 0
                /\ load_state.tables[t].status = "running") =>
                    LET named == Named(load_state, t, args[2]) IN
                    /\ handler'[h].text = "finished!" <=> named # {}
                    /\ named # {} =>
                        /\ load_state'.tables[t].status = "finished"
                        /\ \E i \in named :
                            /\ \A j \in named : i <= j
                            /\ load_state'.tables[t].winner_id
                                    = load_state.tables[t].players[i]
                    /\ named = {} => file' = file]_vars

\* The mention names two players of the table, and the one who joined
\* first, not the one with the lower id, is the winner.
C18_Witness ==
    /\ handler[1].cmd = "winner"
    /\ handler[1].text = "finished!"
    /\ \E t \in TableIds(load_state) :
        /\ load_state.tables[t].key = handler[1].args[1]
        /\ load_state.tables[t].winner_id = str(2)
        /\ load_state.tables[t].players[1] = str(2)
        /\ load_state.tables[t].players[2] = str(1)
        /\ Cardinality(Named(load_state, t, handler[1].args[2])) = 2

\* ---------- C19 ----------

\* An aggregate has a waiting table with a free seat.
HasOpenTable(state) ==
    \E t \in TableIds(state) :
        /\ state.tables[t].status = "waiting"
        /\ Len(state.tables[t].players) < TABLE_SIZE

\* C19: a table is added only by a join that finds no waiting table with a
\* free seat; in every persisted state at most one table has fewer than
\* TABLE_SIZE players, it has the highest id, and next_table_id is the
\* number of tables plus one.
C19_OneOpenTable ==
    /\ [](/\ load_state.next_table_id = Len(load_state.tables) + 1
          /\ \A t \in TableIds(load_state) :
                Len(load_state.tables[t].players) < TABLE_SIZE =>
                    \A t2 \in TableIds(load_state) \ {t} :
                        /\ Len(load_state.tables[t2].players) >= TABLE_SIZE
                        /\ load_state.tables[t2].id < load_state.tables[t].id)
    /\ [][Len(load_state'.tables) # Len(load_state.tables) =>
            /\ Len(load_state'.tables) = Len(load_state.tables) + 1
            /\ ~HasOpenTable(load_state)
            /\ \E h \in Handlers : Dispatched(h, "join")]_vars

\* A join that found the only table full has opened a second one.
C19_Witness ==
    /\ handler[1].cmd = "join"
    /\ Len(load_state.tables) = 2
    /\ load_state.next_table_id = 3
    /\ Len(load_state.tables[1].players) = TABLE_SIZE
    /\ load_state.tables[2].players = <<str(handler[1].user)>>

\* ---------- C20 ----------

\* C20: in every persisted state each player's joined_tables is the number
\* of tables whose player list holds the player's id, and each player's
\* wins is the number of tables whose winner_id is the player's id.
C20_Counters ==
    \A uid \in DOMAIN load_state.players :
        /\ load_state.players[uid].joined_tables =
            Cardinality({t \in TableIds(load_state) :
                \E i \in 1..Len(load_state.tables[t].players) :
                    load_state.tables[t].players[i] = uid})
        /\ load_state.players[uid].wins =
            Cardinality({t \in TableIds(load_state) :
                load_state.tables[t].winner_id = uid})

\* A player sits at two tables and has won one of them.
C20_Witness ==
    \E uid \in DOMAIN load_state.players :
        /\ load_state.players[uid].joined_tables = 2
        /\ load_state.players[uid].wins = 1
        /\ Len(load_state.tables) = 2

\* ---------- C13 ----------

\* C13: whenever save is interrupted, the file afterwards holds the complete
\* old or the complete new aggregate, never empty or partial content, and a
\* load that returned committed data never returns the empty aggregate
\* afterwards.
C13_OldOrNew ==
    [][/\ file' = file \/ file'.kind = "json"
       /\ load_state # EmptyState => load_state' # EmptyState]_vars

\* ---------- C14 ----------

\* C14: with handlers interleaving at their awaits, no handler saves a
\* snapshot that was loaded before another handler's save: the snapshot that
\* join saves after its reply is the one the file holds, and no stored
\* player or promoter disappears.
C14_NoStaleSave ==
    [][/\ \A h \in Handlers :
            (/\ handler[h].pc = "join_reply"
             /\ handler'[h].pc = "reply"
             /\ file' # file) => handler[h].state = load_state
       /\ DOMAIN load_state.players \subseteq DOMAIN load_state'.players
       /\ DOMAIN load_state.promoters \subseteq DOMAIN load_state'.promoters]_vars

====
